---- MODULE Spec2Model ----
(***************************************************************************)
(* Model of video_processor.py: parse_gps_data, get_video_start_time,      *)
(* associate_gps_with_clips and process_single_file.                       *)
(*                                                                         *)
(* Text is a sequence of one-character strings.  A datetime is the number  *)
(* of seconds since 2025-01-01 00:00:00, a float parsed from a decimal    *)
(* literal is the reduced fraction [n, d] with d a power of ten, and      *)
(* a duration is a number of hundredths of a second.                       *)
(***************************************************************************)
EXTENDS Integers, Sequences, FiniteSets, TLC

\* ---------------------------------------------------------------- bounds
MaxSegs == 2        \* text segments in the metadata of a processed file
MaxParseSegs == 3   \* text segments in a text handed to parse_gps_data
MaxOffset == 4      \* GPS timestamps range over base .. base + MaxOffset s
MaxClips == 2       \* clip files the segmenter leaves in the output folder
MaxSegLen == 2      \* segment_length ranges over 1 .. MaxSegLen seconds

\* Python's None where a datetime is expected: a value no datetime takes
None == -2147483647

\* ------------------------------------------------------------ characters
DigitChars == <<"0", "1", "2", "3", "4", "5", "6", "7", "8", "9">>

IsDigit(c) == \E k \in 1..10 : DigitChars[k] = c

DigitVal(c) == (CHOOSE k \in 1..10 : DigitChars[k] = c) - 1

IsSpace(c) == c \in {" ", "\n", "\t"}

IsSign(c) == c \in {"+", "-"}

\* s[p] when p is inside s, otherwise a value that is no character
CharAt(s, p) == IF p >= 1 /\ p <= Len(s) THEN s[p] ELSE "<eof>"

Slice(s, a, b) == IF b < a THEN << >> ELSE SubSeq(s, a, b)

\* ------------------------------------------------- the pattern, line 102
\* first position at or after p that does not hold a character of class \d
RECURSIVE SkipDigits(_, _)
SkipDigits(s, p) == IF IsDigit(CharAt(s, p)) THEN SkipDigits(s, p + 1) ELSE p

\* first position at or after p that does not hold a character of class \s
RECURSIVE SkipSpaces(_, _)
SkipSpaces(s, p) == IF IsSpace(CharAt(s, p)) THEN SkipSpaces(s, p + 1) ELSE p

\* \d{4}:\d{2}:\d{2} \d{2}:\d{2}:\d{2}Z  at positions p .. p+19
TsTemplate ==
    <<"d", "d", "d", "d", ":", "d", "d", ":", "d", "d", " ",
      "d", "d", ":", "d", "d", ":", "d", "d", "Z">>

MatchTs(s, p) ==
    \A k \in 1..Len(TsTemplate) :
        IF TsTemplate[k] = "d" THEN IsDigit(CharAt(s, p + k - 1))
        ELSE CharAt(s, p + k - 1) = TsTemplate[k]

\* \d+\.\d+ at p: the position after the match, or 0 when there is none.
\* Both \d+ are greedy; giving a digit back never helps, since what follows
\* in the pattern is never a digit.
MatchDecimal(s, p) ==
    LET a == SkipDigits(s, p)
        b == SkipDigits(s, a + 1)
    IN IF a > p /\ CharAt(s, a) = "." /\ b > a + 1 THEN b ELSE 0

\* [+-]?\d+\.\d+ at p (group 2)
MatchLat(s, p) ==
    IF IsSign(CharAt(s, p)) THEN MatchDecimal(s, p + 1) ELSE MatchDecimal(s, p)

\* variant: the sign of the longitude optional as well
MatchLonOptionalSign(s, p) ==
    IF IsSign(CharAt(s, p)) THEN MatchDecimal(s, p + 1) ELSE MatchDecimal(s, p)

\* [+-]\d+\.\d+ at p (group 3)
MatchLon(s, p) ==
    IF IsSign(CharAt(s, p)) THEN MatchDecimal(s, p + 1) ELSE 0

\* the whole pattern at p: [end, ts_str, lat_str, lon_str], end = 0 for no match
MatchAt(s, p) ==
    LET noMatch == [end |-> 0, ts_str |-> << >>, lat_str |-> << >>, lon_str |-> << >>]
    IN IF ~MatchTs(s, p) THEN noMatch
       ELSE LET latFrom == SkipSpaces(s, p + Len(TsTemplate))
                latEnd == MatchLat(s, latFrom)
            IN IF latEnd = 0 THEN noMatch
               ELSE LET lonFrom == SkipSpaces(s, latEnd)
                        lonEnd == MatchLon(s, lonFrom)
                    IN IF lonEnd = 0 THEN noMatch
                       ELSE [end |-> lonEnd,
                             ts_str |-> Slice(s, p, p + Len(TsTemplate) - 1),
                             lat_str |-> Slice(s, latFrom, latEnd - 1),
                             lon_str |-> Slice(s, lonFrom, lonEnd - 1)]

\* pattern.findall(raw_string): leftmost, non-overlapping matches from p on
RECURSIVE FindAllFrom(_, _)
FindAllFrom(s, p) ==
    IF p > Len(s) THEN << >>
    ELSE LET m == MatchAt(s, p)
         IN IF m.end = 0 THEN FindAllFrom(s, p + 1)
            ELSE <<[ts_str |-> m.ts_str, lat_str |-> m.lat_str, lon_str |-> m.lon_str]>>
                 \o FindAllFrom(s, m.end)

findall(s) == FindAllFrom(s, 1)

\* ------------------------------------------- datetime.strptime, line 107
IsLeap(y) == (y % 4 = 0) /\ ((y % 100 # 0) \/ (y % 400 = 0))

DaysInMonth(y, m) ==
    IF m = 2 THEN (IF IsLeap(y) THEN 29 ELSE 28)
    ELSE IF m \in {4, 6, 9, 11} THEN 30 ELSE 31

RECURSIVE DaysBeforeMonth(_, _)
DaysBeforeMonth(y, m) ==
    IF m <= 1 THEN 0 ELSE DaysBeforeMonth(y, m - 1) + DaysInMonth(y, m - 1)

DaysBeforeYear(y) ==
    LET z == y - 1 IN z * 365 + (z \div 4) - (z \div 100) + (z \div 400)

Ordinal(y, m, d) == DaysBeforeYear(y) + DaysBeforeMonth(y, m) + d

ToSeconds(y, m, d, hh, mm, ss) ==
    (Ordinal(y, m, d) - Ordinal(2025, 1, 1)) * 86400 + hh * 3600 + mm * 60 + ss

Num2(s, p) == DigitVal(s[p]) * 10 + DigitVal(s[p + 1])

\* strptime(ts_str, "%Y:%m:%d %H:%M:%SZ") on a string the pattern matched:
\* the datetime, or None where strptime raises ValueError
strptime(ts) ==
    LET y == Num2(ts, 1) * 100 + Num2(ts, 3)
        m == Num2(ts, 6)
        d == Num2(ts, 9)
        hh == Num2(ts, 12)
        mm == Num2(ts, 15)
        ss == Num2(ts, 18)
    IN IF /\ y >= 1
          /\ m >= 1 /\ m <= 12
          /\ d >= 1 /\ d <= DaysInMonth(y, m)
          /\ hh <= 23 /\ mm <= 59 /\ ss <= 59
       THEN ToSeconds(y, m, d, hh, mm, ss)
       ELSE None

\* ------------------------------------------------- float, lines 108-109
RECURSIVE DigitsValue(_)
DigitsValue(ds) ==
    IF ds = << >> THEN 0
    ELSE DigitsValue(SubSeq(ds, 1, Len(ds) - 1)) * 10 + DigitVal(ds[Len(ds)])

RECURSIVE Pow10(_)
Pow10(k) == IF k = 0 THEN 1 ELSE 10 * Pow10(k - 1)

RECURSIVE Reduce(_, _)
Reduce(n, d) ==
    IF d > 1 /\ n % 10 = 0 THEN Reduce(n \div 10, d \div 10) ELSE [n |-> n, d |-> d]

\* float(str) on a string matching [+-]?\d+\.\d+ (it never raises on those)
float(str) ==
    LET neg == str[1] = "-"
        body == IF IsSign(str[1]) THEN Tail(str) ELSE str
        dot == CHOOSE k \in 1..Len(body) : body[k] = "."
        frac == Slice(body, dot + 1, Len(body))
        mag == DigitsValue(Slice(body, 1, dot - 1)) * Pow10(Len(frac)) + DigitsValue(frac)
    IN Reduce(IF neg THEN 0 - mag ELSE mag, Pow10(Len(frac)))

\* ------------------------------------------------ list.sort, line 117
Front(s) == SubSeq(s, 1, Len(s) - 1)

\* variant: r put in front of the records of its own timestamp
RECURSIVE InsertSortedUnstable(_, _)
InsertSortedUnstable(s, r) ==
    IF s = << >> THEN <<r>>
    ELSE IF s[Len(s)].timestamp < r.timestamp THEN Append(s, r)
    ELSE Append(InsertSortedUnstable(Front(s), r), s[Len(s)])

\* r put into the sorted list s behind every record that is not later
RECURSIVE InsertSorted(_, _)
InsertSorted(s, r) ==
    IF s = << >> THEN <<r>>
    ELSE IF s[Len(s)].timestamp <= r.timestamp THEN Append(s, r)
    ELSE Append(InsertSorted(Front(s), r), s[Len(s)])

\* gps_records.sort(key=lambda x: x["timestamp"]): a stable sort
RECURSIVE StableSort(_)
StableSort(s) ==
    IF s = << >> THEN << >> ELSE InsertSorted(StableSort(Front(s)), s[Len(s)])

\* ------------------------------------ get_video_start_time, lines 120-143
\* what ffprobe prints for one tag: nothing, something strptime rejects (or
\* ffprobe itself fails), or a date-time in "%Y-%m-%d %H:%M:%S" form
TagEmpty == [kind |-> "empty", dt |-> 0]
TagError == [kind |-> "error", dt |-> 0]
TagTime(t) == [kind |-> "ok", dt |-> t]

\* encoded_date is tried first, then creation_time
get_video_start_time(encoded_date, creation_time) ==
    IF encoded_date.kind = "ok" THEN encoded_date.dt
    ELSE IF creation_time.kind = "ok" THEN creation_time.dt
    ELSE None

\* -------------------------------- associate_gps_with_clips, lines 145-157
\* variant: the window closed at its end
RECURSIVE SelectSeq2Inclusive(_, _, _)
SelectSeq2Inclusive(s, lo, hi) ==
    IF s = << >> THEN << >>
    ELSE LET rest == SelectSeq2Inclusive(Tail(s), lo, hi)
         IN IF lo <= Head(s).timestamp /\ Head(s).timestamp <= hi
            THEN <<Head(s)>> \o rest ELSE rest

\* variant: the window open at its start
RECURSIVE SelectSeq2Strict(_, _, _)
SelectSeq2Strict(s, lo, hi) ==
    IF s = << >> THEN << >>
    ELSE LET rest == SelectSeq2Strict(Tail(s), lo, hi)
         IN IF lo < Head(s).timestamp /\ Head(s).timestamp < hi
            THEN <<Head(s)>> \o rest ELSE rest

\* the list comprehension of line 155
RECURSIVE SelectSeq2(_, _, _)
SelectSeq2(s, lo, hi) ==
    IF s = << >> THEN << >>
    ELSE LET rest == SelectSeq2(Tail(s), lo, hi)
         IN IF lo <= Head(s).timestamp /\ Head(s).timestamp < hi
            THEN <<Head(s)>> \o rest ELSE rest

\* start of the window of the clip at position i (from 0) of clips_info
clip_start(i, start, seglen) == start + i * seglen

clip_end(i, start, seglen) == start + (i + 1) * seglen

\* variant: a fresh {clip_index, gps_data} dictionary instead of the clip's own
SetGpsDataFresh(clip, g) == [clip_index |-> clip.clip_index, gps_data |-> g]

\* the dictionary clip after clip["gps_data"] = g
SetGpsData(clip, g) ==
    [k \in (DOMAIN clip) \cup {"gps_data"} |-> IF k = "gps_data" THEN g ELSE clip[k]]

\* variant: a clip without records gets a placeholder point at its start
associate_gps_with_clips_padded(clips_info, records, start, seglen) ==
    [p \in 1..Len(clips_info) |->
        LET g == SelectSeq2(records, clip_start(p - 1, start, seglen),
                            clip_end(p - 1, start, seglen))
        IN SetGpsData(clips_info[p],
                      IF g = << >>
                      THEN <<[timestamp |-> clip_start(p - 1, start, seglen),
                              latitude |-> [n |-> 0, d |-> 1],
                              longitude |-> [n |-> 0, d |-> 1]]>>
                      ELSE g)]

\* the list clips_info after the loop of lines 152-156
associate_gps_with_clips(clips_info, records, start, seglen) ==
    [p \in 1..Len(clips_info) |->
        SetGpsData(clips_info[p],
                   SelectSeq2(records, clip_start(p - 1, start, seglen),
                              clip_end(p - 1, start, seglen)))]

\* ------------------------------------------------------------- the inputs
Digits2(n) == <<DigitChars[(n \div 10) + 1], DigitChars[(n % 10) + 1]>>

TsText(y, m, d, hh, mm, ss) ==
    Digits2(y \div 100) \o Digits2(y % 100) \o <<":">> \o Digits2(m) \o <<":">>
    \o Digits2(d) \o <<" ">> \o Digits2(hh) \o <<":">> \o Digits2(mm) \o <<":">>
    \o Digits2(ss) \o <<"Z">>

\* the text of the instant k seconds after 2025-03-31 23:59:58
Stamp(k) ==
    IF 58 + k < 60 THEN TsText(2025, 3, 31, 23, 59, 58 + k)
    ELSE TsText(2025, 4, 1, 0, (k - 2) \div 60, (k - 2) % 60)

TimeAt(k) == ToSeconds(2025, 3, 31, 23, 59, 58) + k

BadMonth == TsText(2025, 13, 31, 23, 59, 59)

BadHour == TsText(2025, 3, 31, 25, 0, 1)

BadDay == TsText(2025, 2, 29, 0, 0, 2)

CoordsA == <<"4", "1", ".", "5", "-", "8", "8", ".", "5", "\n">>

CoordsB == <<" ", "-", "4", "1", ".", "2", "5", " ", "+", "8", "8", ".", "5", "0", "\n">>

CoordsUnsignedLon == <<"4", "1", ".", "5", " ", "8", "8", ".", "5", "\n">>

CoordsNoNewline == <<"+", "7", ".", "0", "+", "0", ".", "1">>

Junk == <<"x", "Z", "1", ".", "5">>

\* segments of the metadata text of a processed file
FileSegments ==
    {Stamp(k) \o CoordsA : k \in 0..MaxOffset}
    \cup {BadMonth \o CoordsA, Junk}

\* segments of a text handed to parse_gps_data
ParseSegments ==
    {Stamp(k) \o CoordsA : k \in 0..MaxOffset}
    \cup {Stamp(1) \o CoordsB, Stamp(0) \o CoordsUnsignedLon, Stamp(3) \o CoordsNoNewline,
          BadMonth \o CoordsA, BadHour \o CoordsB, BadDay \o CoordsA, Junk}

RECURSIVE Concat(_)
Concat(ss) == IF ss = << >> THEN << >> ELSE Head(ss) \o Concat(Tail(ss))

Texts(segments, maxSegs) ==
    {Concat(ss) : ss \in UNION {[1..n -> segments] : n \in 0..maxSegs}}

TagOutputs == {TagEmpty, TagError, TagTime(TimeAt(1))}

\* durations ffprobe reports, in hundredths of a second; 0 is the value
\* get_clip_duration returns when ffprobe fails
Durations(seglen) == {0, 100 * seglen - 50, 100 * seglen, 100 * seglen + 5}

Abs(x) == IF x < 0 THEN 0 - x ELSE x

\* abs(duration - segment_length) < 0.1, line 189
DurationOk(duration, seglen) == Abs(duration - 100 * seglen) < 10

\* ---------------------------------------------------------------- state
VARIABLES
    input_file,      \* the file on disk: its metadata text and its two date tags
    pc,              \* position in process_single_file / parse_gps_data
    segment_length,  \* the parameter, in seconds
    clip_files,      \* sorted clip files; a file is named by its clip number
    removed,         \* clip files deleted by os.remove
    raw,             \* raw_gps_data / raw_string
    matches,         \* pattern.findall(raw_string)
    mi,              \* index of the next match the loop of line 105 takes
    gps_records,
    video_start,
    idx,             \* next position of enumerate(clip_files), from 0
    file_clips,
    result,          \* the returned list once pc = "done", empty before
    err              \* the exception raised to the caller, NoError if none

vars == <<input_file, pc, segment_length, clip_files, removed, raw, matches, mi,
          gps_records, video_start, idx, file_clips, result, err>>

NoError == "none"

Blank ==
    /\ clip_files = << >>
    /\ removed = {}
    /\ matches = << >>
    /\ mi = 1
    /\ gps_records = << >>
    /\ video_start = None
    /\ idx = 0
    /\ file_clips = << >>
    /\ result = << >>
    /\ err = NoError

\* a call of process_single_file(input_file, output_dir, segment_length)
Init ==
    /\ pc = "segment"
    /\ segment_length \in 1..MaxSegLen
    /\ input_file \in [text : Texts(FileSegments, MaxSegs),
                       encoded_date : TagOutputs, creation_time : TagOutputs]
    /\ raw = << >>
    /\ Blank

\* a call of parse_gps_data(raw_string) on its own
InitParse ==
    /\ pc = "findall"
    /\ segment_length = 1
    /\ input_file = [text |-> << >>, encoded_date |-> TagEmpty, creation_time |-> TagEmpty]
    /\ raw \in Texts(ParseSegments, MaxParseSegs)
    /\ Blank

\* ------------------------------------------ parse_gps_data, lines 90-118
\* line 104; the caller's text is raw
FindAll ==
    /\ pc = "findall"
    /\ matches' = findall(raw)
    /\ gps_records' = << >>
    /\ mi' = 1
    /\ pc' = "loop"
    /\ UNCHANGED <<input_file, segment_length, clip_files, removed, raw, video_start,
                   idx, file_clips, result, err>>

\* lines 105-114: the try block runs to its end
AppendRecord ==
    /\ pc = "loop"
    /\ mi <= Len(matches)
    /\ strptime(matches[mi].ts_str) # None
    /\ gps_records' = Append(gps_records,
                             [timestamp |-> strptime(matches[mi].ts_str),
                              latitude |-> float(matches[mi].lat_str),
                              longitude |-> float(matches[mi].lon_str)])
    /\ mi' = mi + 1
    /\ UNCHANGED <<input_file, pc, segment_length, clip_files, removed, raw, matches, video_start,
                   idx, file_clips, result, err>>

\* variant: the try statement around the whole loop, the first failure ends it
SkipRecordAborts ==
    /\ pc = "loop"
    /\ mi <= Len(matches)
    /\ strptime(matches[mi].ts_str) = None
    /\ mi' = Len(matches) + 1
    /\ UNCHANGED <<input_file, pc, segment_length, clip_files, removed, raw, matches,
                   gps_records, video_start, idx, file_clips, result, err>>

\* lines 106-107, 115-116: strptime raises, the except clause prints
SkipRecord ==
    /\ pc = "loop"
    /\ mi <= Len(matches)
    /\ strptime(matches[mi].ts_str) = None
    /\ mi' = mi + 1
    /\ UNCHANGED <<input_file, pc, segment_length, clip_files, removed, raw, matches, gps_records,
                   video_start, idx, file_clips, result, err>>

\* lines 117-118
SortRecords ==
    /\ pc = "loop"
    /\ mi > Len(matches)
    /\ gps_records' = StableSort(gps_records)
    /\ pc' = "parsed"
    /\ UNCHANGED <<input_file, segment_length, clip_files, removed, raw, matches, mi, video_start,
                   idx, file_clips, result, err>>

\* ------------------------------------ process_single_file, lines 159-207
\* line 171: ffmpeg exits with 0 and n clip files are listed
SegmentOk ==
    /\ pc = "segment"
    /\ \E n \in 0..MaxClips : clip_files' = [i \in 1..n |-> i - 1]
    /\ pc' = "extract"
    /\ UNCHANGED <<input_file, segment_length, removed, raw, matches, mi, gps_records, video_start,
                   idx, file_clips, result, err>>

\* line 171, line 27: subprocess.run(..., check=True) raises
SegmentFails ==
    /\ pc = "segment"
    /\ err' = "CalledProcessError"
    /\ pc' = "raised"
    /\ UNCHANGED <<input_file, segment_length, clip_files, removed, raw, matches, mi, gps_records,
                   video_start, idx, file_clips, result>>

\* line 174: exiftool prints the text, or fails and "" is returned
ExtractRaw ==
    /\ pc = "extract"
    /\ raw' \in {input_file.text, << >>}
    /\ pc' = "findall"
    /\ UNCHANGED <<input_file, segment_length, clip_files, removed, matches, mi, gps_records,
                   video_start, idx, file_clips, result, err>>

\* line 179
GetVideoStartTime ==
    /\ pc = "parsed"
    /\ video_start' = get_video_start_time(input_file.encoded_date,
                                           input_file.creation_time)
    /\ pc' = "start"
    /\ UNCHANGED <<input_file, segment_length, clip_files, removed, raw, matches, mi, gps_records,
                   idx, file_clips, result, err>>

\* variant: the last record instead of the first
UseGpsFallbackLast ==
    /\ pc = "start"
    /\ video_start = None
    /\ gps_records # << >>
    /\ video_start' = gps_records[Len(gps_records)].timestamp
    /\ pc' = "clips"
    /\ UNCHANGED <<input_file, segment_length, clip_files, removed, raw, matches, mi,
                   gps_records, idx, file_clips, result, err>>

\* lines 180-181
UseGpsFallback ==
    /\ pc = "start"
    /\ video_start = None
    /\ gps_records # << >>
    /\ video_start' = gps_records[1].timestamp
    /\ pc' = "clips"
    /\ UNCHANGED <<input_file, segment_length, clip_files, removed, raw, matches, mi, gps_records,
                   idx, file_clips, result, err>>

\* lines 182-183
RaiseNoStart ==
    /\ pc = "start"
    /\ video_start = None
    /\ gps_records = << >>
    /\ err' = "ValueError"
    /\ pc' = "raised"
    /\ UNCHANGED <<input_file, segment_length, clip_files, removed, raw, matches, mi, gps_records,
                   video_start, idx, file_clips, result>>

\* lines 180, 182: both tests fail
StartKnown ==
    /\ pc = "start"
    /\ video_start # None
    /\ pc' = "clips"
    /\ UNCHANGED <<input_file, segment_length, clip_files, removed, raw, matches, mi, gps_records,
                   video_start, idx, file_clips, result, err>>

\* lines 187-200
KeepClip ==
    /\ pc = "clips"
    /\ idx < Len(clip_files)
    /\ \E duration \in Durations(segment_length) :
          /\ DurationOk(duration, segment_length)
          /\ file_clips' = Append(file_clips,
                                  [source_file |-> "input_file",
                                   clip_file |-> clip_files[idx + 1],
                                   clip_index |-> idx,
                                   duration |-> duration,
                                   pothole |-> FALSE])
    /\ idx' = idx + 1
    /\ UNCHANGED <<input_file, pc, segment_length, clip_files, removed, raw, matches, mi,
                   gps_records, video_start, result, err>>

\* lines 187-189, 201-203
DiscardClip ==
    /\ pc = "clips"
    /\ idx < Len(clip_files)
    /\ \E duration \in Durations(segment_length) : ~DurationOk(duration, segment_length)
    /\ removed' = removed \cup {clip_files[idx + 1]}
    /\ idx' = idx + 1
    /\ UNCHANGED <<input_file, pc, segment_length, clip_files, raw, matches, mi, gps_records,
                   video_start, file_clips, result, err>>

\* lines 206-207; associate_gps_with_clips returns the list it was given
Associate ==
    /\ pc = "clips"
    /\ idx = Len(clip_files)
    /\ file_clips' = associate_gps_with_clips(file_clips, gps_records, video_start,
                                              segment_length)
    /\ result' = file_clips'
    /\ pc' = "done"
    /\ UNCHANGED <<input_file, segment_length, clip_files, removed, raw, matches, mi, gps_records,
                   video_start, idx, err>>

Next ==
    \/ SegmentOk \/ SegmentFails \/ ExtractRaw
    \/ FindAll \/ AppendRecord \/ SkipRecord \/ SortRecords
    \/ GetVideoStartTime \/ UseGpsFallback \/ RaiseNoStart \/ StartKnown
    \/ KeepClip \/ DiscardClip \/ Associate

Spec == Init /\ [][Next]_vars

NextParse == FindAll \/ AppendRecord \/ SkipRecord \/ SortRecords

SpecParse == InitParse /\ [][NextParse]_vars

\* ------------------------------------------------ helpers of the claims
InSeq(r, s) == \E k \in 1..Len(s) : s[k] = r

\* the records of s whose timestamp lies in [lo, hi), in the order of s
InWindow(s, lo, hi) ==
    LET Test(r) == lo <= r.timestamp /\ r.timestamp < hi IN SelectSeq(s, Test)

WithTimestamp(s, t) == LET Test(r) == r.timestamp = t IN SelectSeq(s, Test)

RECURSIVE SumLen(_)
SumLen(clips) ==
    IF clips = << >> THEN 0 ELSE Len(Head(clips).gps_data) + SumLen(Tail(clips))

\* what get_video_start_time returns for the file
TagStart == get_video_start_time(input_file.encoded_date, input_file.creation_time)

\* the clip dictionary without its gps_data key
WithoutGpsData(clip) == [k \in (DOMAIN clip) \ {"gps_data"} |-> clip[k]]

Parseable(m) == strptime(m.ts_str) # None

RecordOf(m) ==
    [timestamp |-> strptime(m.ts_str), latitude |-> float(m.lat_str),
     longitude |-> float(m.lon_str)]

\* the records of the parseable matches, in the order of the matches
ParseableRecords(ms) ==
    LET good == SelectSeq(ms, Parseable) IN [k \in 1..Len(good) |-> RecordOf(good[k])]

\* ------------------------------------------------------------------ C1
\* C1: every returned clip's gps_data is exactly the parsed records whose
\* timestamp lies in [t0 + k*L, t0 + (k+1)*L), k being the clip's clip_index,
\* whatever clips were kept or discarded before it.
C1_WindowOfClipIndex ==
    pc = "done" =>
        \A p \in 1..Len(result) :
            result[p].gps_data =
                InWindow(gps_records,
                         video_start + result[p].clip_index * segment_length,
                         video_start + (result[p].clip_index + 1) * segment_length)

\* ------------------------------------------------------------------ C2
\* C2: a record whose timestamp is the end of the window of the clip at
\* position i is never in that clip's gps_data; it is in the gps_data of the
\* clip at position i+1 when there is one, and in no clip's gps_data otherwise.
C2_BoundaryGoesToNext ==
    pc = "done" =>
        \A p \in 1..Len(result) : \A k \in 1..Len(gps_records) :
            gps_records[k].timestamp = video_start + p * segment_length =>
                /\ ~InSeq(gps_records[k], result[p].gps_data)
                /\ p < Len(result) => InSeq(gps_records[k], result[p + 1].gps_data)
                /\ p = Len(result) =>
                      \A q \in 1..Len(result) : ~InSeq(gps_records[k], result[q].gps_data)

C2_Witness ==
    /\ pc = "done"
    /\ Len(result) >= 2
    /\ \E k \in 1..Len(gps_records) :
          /\ gps_records[k].timestamp = video_start + segment_length
          /\ InSeq(gps_records[k], result[2].gps_data)
    /\ \E k \in 1..Len(gps_records) :
          gps_records[k].timestamp = video_start + Len(result) * segment_length

\* ------------------------------------------------------------------ C3
\* C3: after the association on n clips every record with timestamp in
\* [video_start, video_start + n*L) is in the gps_data of exactly one clip,
\* every other record is in none, and the clips' lists hold together as many
\* entries as there are records in that range.
C3_Partition ==
    pc = "done" =>
        LET n == Len(result)
            holders(r) == {p \in 1..n : InSeq(r, result[p].gps_data)}
            inRange(r) == /\ video_start <= r.timestamp
                          /\ r.timestamp < video_start + n * segment_length
        IN /\ \A k \in 1..Len(gps_records) :
                  Cardinality(holders(gps_records[k])) =
                      (IF inRange(gps_records[k]) THEN 1 ELSE 0)
           /\ SumLen(result) =
                  Len(InWindow(gps_records, video_start, video_start + n * segment_length))

C3_Witness ==
    /\ pc = "done"
    /\ Len(result) >= 2
    /\ result[2].gps_data # << >>
    /\ \E k \in 1..Len(gps_records) :
          \/ gps_records[k].timestamp < video_start
          \/ gps_records[k].timestamp >= video_start + Len(result) * segment_length

\* ------------------------------------------------------------------ C4
\* C4: the list parse_gps_data returns is non-decreasing by timestamp, and the
\* records of one timestamp stand in the order of their matches in the text.
C4_SortedStable ==
    pc = "parsed" =>
        /\ \A k \in 1..(Len(gps_records) - 1) :
              gps_records[k].timestamp <= gps_records[k + 1].timestamp
        /\ \A k \in 1..Len(gps_records) :
              WithTimestamp(gps_records, gps_records[k].timestamp) =
                  WithTimestamp(ParseableRecords(matches), gps_records[k].timestamp)

C4_Witness ==
    /\ pc = "parsed"
    /\ \E k \in 1..(Len(gps_records) - 1) :
          /\ gps_records[k].timestamp = gps_records[k + 1].timestamp
          /\ gps_records[k] # gps_records[k + 1]
    /\ gps_records # ParseableRecords(matches)

\* ------------------------------------------------------------------ C5
\* C5: a match whose date-time fails to parse is dropped without an error
\* reaching the caller, and the matches before and after it still yield their
\* records: the output holds exactly one record per parseable match.
C5_OneRecordPerParseableMatch ==
    /\ (pc = "loop" /\ mi > Len(matches)) => gps_records = ParseableRecords(matches)
    /\ pc = "parsed" =>
          /\ Len(gps_records) = Len(SelectSeq(matches, Parseable))
          /\ \A k \in 1..Len(matches) :
                Parseable(matches[k]) => InSeq(RecordOf(matches[k]), gps_records)
          /\ err = NoError

C5_Witness ==
    /\ pc = "parsed"
    /\ Len(matches) = 3
    /\ Parseable(matches[1]) /\ ~Parseable(matches[2]) /\ Parseable(matches[3])
    /\ Len(gps_records) = 2

\* ------------------------------------------------------------------ C6
\* C6: process_single_file raises to its caller exactly when the start time
\* cannot be read from the tags and the parsed record list is empty; with an
\* unreadable start time and some record it does not raise and takes the
\* smallest GPS timestamp as t0.
C6_RaisesExactlyWhenNoStart ==
    /\ pc = "raised" => (TagStart = None /\ gps_records = << >>)
    /\ pc \in {"clips", "done"} => ~(TagStart = None /\ gps_records = << >>)
    /\ (pc \in {"clips", "done"} /\ TagStart = None) =>
          /\ \E k \in 1..Len(gps_records) : video_start = gps_records[k].timestamp
          /\ \A k \in 1..Len(gps_records) : video_start <= gps_records[k].timestamp

\* C6 as amended: the error "Unable to determine the start time" (ValueError)
\* is raised exactly when the start time cannot be read from the tags and the
\* parsed record list is empty, and with some record the smallest GPS
\* timestamp is t0; a failing segmentation command raises its own error first,
\* whatever the tags and the records are.
C6_StartTimeError ==
    /\ err = "ValueError" => (pc = "raised" /\ TagStart = None /\ gps_records = << >>)
    /\ err = "CalledProcessError" => (pc = "raised" /\ clip_files = << >> /\ raw = << >>)
    /\ pc \in {"clips", "done"} =>
          (err = NoError /\ ~(TagStart = None /\ gps_records = << >>))
    /\ (pc \in {"clips", "done"} /\ TagStart = None) =>
          /\ \E k \in 1..Len(gps_records) : video_start = gps_records[k].timestamp
          /\ \A k \in 1..Len(gps_records) : video_start <= gps_records[k].timestamp

C6_Witness ==
    /\ pc = "done"
    /\ TagStart = None
    /\ Len(gps_records) >= 2
    /\ gps_records[1].timestamp < gps_records[Len(gps_records)].timestamp
    /\ video_start = gps_records[1].timestamp
    /\ result # << >>

\* ------------------------------------------------------------------ C7
\* what process_single_file returns for the same clips and records when
\* get_video_start_time returns t
ReturnedWithTagStart(t) ==
    associate_gps_with_clips([p \in 1..Len(result) |-> WithoutGpsData(result[p])],
                             gps_records, t, segment_length)

\* C7: the clip records returned in fallback mode (start time taken from the
\* earliest GPS record) are flagged: they differ from the clip records returned
\* when the tags give that start time.
C7_FallbackFlagged ==
    (pc = "done" /\ TagStart = None /\ result # << >>) =>
        \A k \in 1..Len(gps_records) :
            result # ReturnedWithTagStart(gps_records[k].timestamp)

\* ------------------------------------------------------------------ C8
\* C8: a call of associate_gps_with_clips leaves the clip sequence with its
\* clip records and the GPS record sequence as they were.
C8_InputsUnchanged ==
    [][(pc = "clips" /\ pc' = "done") =>
          (file_clips' = file_clips /\ gps_records' = gps_records)]_vars

\* C8 as amended: a call leaves the GPS record sequence as it was, and changes
\* the clip sequence only by setting the gps_data key of each clip record; the
\* returned list is the clip sequence it was given.
C8_OnlyGpsDataAdded ==
    [][(pc = "clips" /\ pc' = "done") =>
          /\ gps_records' = gps_records
          /\ result' = file_clips'
          /\ Len(file_clips') = Len(file_clips)
          /\ \A p \in 1..Len(file_clips) :
                /\ "gps_data" \in DOMAIN file_clips'[p]
                /\ WithoutGpsData(file_clips'[p]) = file_clips[p]]_vars

C8_Witness ==
    /\ pc = "done"
    /\ Len(file_clips) >= 2
    /\ file_clips[1].gps_data # << >>
    /\ file_clips[1].duration # file_clips[2].duration

\* ------------------------------------------------------------------ C9
NoMatchIn(s) == \A p \in 1..Len(s) : MatchAt(s, p).end = 0

\* C9: parse_gps_data returns the empty list for a text without a matching
\* substring; associate_gps_with_clips returns the empty list for zero clips
\* and gives every clip an empty gps_data for zero records; nothing is raised.
C9_Degenerate ==
    [][/\ (pc = "loop" /\ pc' = "parsed" /\ NoMatchIn(raw)) =>
             (gps_records' = << >> /\ err' = NoError)
       /\ (pc = "clips" /\ pc' = "done" /\ file_clips = << >>) =>
             (result' = << >> /\ err' = NoError)
       /\ (pc = "clips" /\ pc' = "done" /\ gps_records = << >>) =>
             /\ Len(result') = Len(file_clips)
             /\ \A p \in 1..Len(result') : result'[p].gps_data = << >>
             /\ err' = NoError]_vars

C9_Witness ==
    /\ pc = "done"
    /\ raw # << >>
    /\ NoMatchIn(raw)
    /\ gps_records = << >>
    /\ Len(result) = Len(clip_files)
    /\ Len(result) >= 2

\* ----------------------------------------------------------------- C10
\* the timestamp at p starts the text or follows a character that cannot be
\* the tail of a longitude before it
Standalone(s, p) == p = 1 \/ (~IsDigit(s[p - 1]) /\ s[p - 1] # ".")

OptionalSignDecimal(s, p) ==
    IF IsSign(CharAt(s, p)) THEN MatchDecimal(s, p + 1) ELSE MatchDecimal(s, p)

SignedDecimal(s, p) == IF IsSign(CharAt(s, p)) THEN MatchDecimal(s, p + 1) ELSE 0

\* at p: a timestamp of the pattern, a latitude with or without sign and a
\* longitude, with a sign if lonSigned and with or without one otherwise
RecordTextAt(s, p, lonSigned) ==
    /\ MatchTs(s, p)
    /\ LET latEnd == OptionalSignDecimal(s, SkipSpaces(s, p + Len(TsTemplate)))
       IN /\ latEnd # 0
          /\ IF lonSigned THEN SignedDecimal(s, SkipSpaces(s, latEnd)) # 0
             ELSE OptionalSignDecimal(s, SkipSpaces(s, latEnd)) # 0

TsAt(s, p) == strptime(Slice(s, p, p + Len(TsTemplate) - 1))

====
